---- MODULE Spec2Model ----
(***************************************************************************)
(* The plugin-side command registry (CommandRegistryImpl) and the safe     *)
(* command converter (CommandsConverter) of                                *)
(* packages/plugin-ext/src/plugin/command-registry.ts.                     *)
(*                                                                         *)
(* DebugTest.doTests of packages/apt-tests/src/browser/debug-tests.ts is    *)
(* modelled beside them, with variables of its own.                        *)
(*                                                                         *)
(* JavaScript runs each call to completion, so every public method is one  *)
(* atomic action.  `last` records the call just made and `result` what it  *)
(* gave back; every action sets both.                                      *)
(***************************************************************************)
EXTENDS Integers, Sequences, FiniteSets, TLC

VARIABLES
    commands,            \* CommandRegistryImpl.commands: Set<string>
    handlers,            \* CommandRegistryImpl.handlers: Map<string, Handler>
    argumentProcessors,  \* CommandRegistryImpl.argumentProcessors: ArgumentProcessor[]
    notifiedCommands,    \* ids whose latest proxy notification is $registerCommand
    notifiedHandlers,    \* ids whose latest proxy notification is $registerHandler
    disposables,         \* Disposables returned to callers and not yet disposed
    commandsMap,         \* CommandsConverter.commandsMap: Map<number, Command>
    handle,              \* CommandsConverter.handle
    isSafeCommandRegistered, \* CommandsConverter.isSafeCommandRegistered
    scopes,              \* per DisposableCollection: the handles it will release
    released,            \* history: per id, the handler a disposed registerCommand(c, h)
                         \* detached, until the id is registered again
    inflight,            \* invocations whose handler has been called and whose
                         \* promise has not settled yet
    pc,                  \* DebugTest.doTests: the await it is suspended at
    deferredThread,      \* doTests: which Deferred the variable names (0: none yet)
    deferreds,           \* per Deferred created: the thread it resolved with, or Pending
    thread,              \* doTests: the local `thread`
    stops,               \* change events the session has emitted for a stop
    changes,             \* change events the session has emitted for anything else
    requests,            \* requests doTests has sent to the session, in order
    responses,           \* how many of them the session has answered
    last,                \* the call just made (operation and inputs)
    result               \* what that call returned, threw or settled with

vars == <<commands, handlers, argumentProcessors, notifiedCommands, notifiedHandlers,
          disposables, commandsMap, handle, isSafeCommandRegistered, scopes,
          released, inflight, pc, deferredThread, deferreds, thread, stops, changes,
          requests, responses, last, result>>

registryVars == <<commands, handlers, notifiedCommands, notifiedHandlers, disposables,
                  released>>
converterVars == <<commandsMap, handle, isSafeCommandRegistered, scopes>>
debugVars == <<pc, deferredThread, deferreds, thread, stops, changes, requests, responses>>

----------------------------------------------------------------------------
(* Bounds *)

\* longest list of argument processors ever registered
MaxProcs == 2
\* number of handles the converter may allocate
MaxHandle == 2
\* number of invocations that may be awaiting their handler's promise
MaxInflight == 2
\* longest list of identifiers the other side returns from $getCommands
MaxList == 3
\* change events a debug session may emit beyond those for the two stops
MaxChanges == 1

----------------------------------------------------------------------------
(* Values *)

\* `theia_safe_cmd_${Date.now()}`: fixed when the converter is constructed
SafeCommandId == "theia_safe_cmd"
\* an identifier the known-command table translates, and its translation
KnownId == "k"
KnownMappedId == "k.main"
\* identifiers plugins register
PluginIds == {"a", "b"}
Ids == PluginIds \cup {SafeCommandId, KnownId}

\* plugin handlers: h1 returns, hx throws
PluginHandlers == {"h1", "hx"}
\* a plugin handler returning a promise that settles after the call
AsyncHandlers == {"hp"}
\* the converter's executeSafeCommand, bound to the converter
Trampoline == "executeSafeCommand"
NoHandler == "-"

\* argument processors: x+1, and 2*x that throws on 0
Processors == {"inc", "dbl"}

\* JavaScript's undefined, as an argument value
Undefined == 0 - 1

\* argument lists callers pass to a command
RegistryArgLists == {<<>>, <<1>>, <<0, 1>>}
\* argument lists callers pass to the trampoline: no handle, each handle
\* that can be issued, and one that never is
HandleArgLists == {<<>>} \cup {<<v>> : v \in 0..MaxHandle}

Scopes == {"s1", "s2"}

\* identifiers the other side lists, as the sequences of their characters:
\* "", "_a", "a_", "a"
ListedIds == {<<>>, <<"_", "a">>, <<"a", "_">>, <<"a">>}
RECURSIVE ListsUpTo(_)
ListsUpTo(n) ==
    IF n = 0 THEN {<<>>}
    ELSE ListsUpTo(n - 1) \cup {Append(l, c) : l \in {x \in ListsUpTo(n - 1) : Len(x) = n - 1},
                                                  c \in ListedIds}
\* what $getCommands can resolve with
RemoteLists == ListsUpTo(MaxList)
NoId == ""
NoCommand == [command |-> NoId, hasArgs |-> FALSE, arguments |-> <<>>]
\* theia.Command values handed to toSafeCommand
Convertible ==
    {[command |-> "a", hasArgs |-> TRUE, arguments |-> <<1>>],
     [command |-> KnownId, hasArgs |-> TRUE, arguments |-> <<0, 1>>],
     [command |-> "a", hasArgs |-> TRUE, arguments |-> <<>>],
     [command |-> "a", hasArgs |-> FALSE, arguments |-> <<>>],
     [command |-> NoId, hasArgs |-> TRUE, arguments |-> <<1>>]}

\* threads of the debugged program; NoThread is `threads.next().value` of a
\* session that has no thread
Threads == {"t1", "t2"}
NoThread == "undefined"
\* a Deferred nobody has resolved
Pending == "pending"

----------------------------------------------------------------------------
(* Outcomes of an execution *)

\* call: which target was invoked ("none", "local", "remote");
\* delivery: "resolved" or "rejected" promise, "pending" while the handler's
\* own promise is open, or "thrown" synchronously;
\* route: the branch the call itself took, "local" (executeLocalCommand) or
\* "remote" (the known-command mapping and the proxy), whatever a handler
\* reached that way went on to do
Out(call, handler, id, args, delivery, err) ==
    [call |-> call, handler |-> handler, id |-> id, args |-> args,
     delivery |-> delivery, err |-> err, route |-> "none"]

NoOut == Out("none", NoHandler, NoId, <<>>, "none", "")

NoLast == [op |-> "init", id |-> NoId, args |-> <<>>, h |-> NoHandler,
           cmd |-> NoCommand, scope |-> "", how |-> "", list |-> <<>>]
\* issued: the notifications the call sent to the proxy before it returned or threw
\* list: the identifiers getCommands resolved with
NoResult == [status |-> "none", out |-> NoOut, ret |-> NoCommand, handle |-> Undefined,
             issued |-> <<>>, list |-> <<>>]

Returned == [NoResult EXCEPT !.status = "ok"]
Threw == [NoResult EXCEPT !.status = "threw"]

----------------------------------------------------------------------------
(* Map helpers *)

Has(m, k) == k \in DOMAIN m
Set(m, k, v) == [x \in DOMAIN m \cup {k} |-> IF x = k THEN v ELSE m[x]]
Delete(m, k) == [x \in DOMAIN m \ {k} |-> m[x]]
EmptyMap == [x \in {} |-> NoHandler]

----------------------------------------------------------------------------
(* CommandRegistryImpl: registration.  The operators work on a registry    *)
(* value so that registerCommand can call registerHandler, as the code     *)
(* does, and so that the converter can call registerCommand.               *)

\* issued: the notifications the call in progress has sent to the proxy, in
\* the order it sent them
Registry == [commands |-> commands, handlers |-> handlers,
             notifiedCommands |-> notifiedCommands,
             notifiedHandlers |-> notifiedHandlers,
             issued |-> <<>>]

Note(method, id) == <<method, id>>

Disposable(kind, id) == [kind |-> kind, id |-> id]
NoDisposable == Disposable("none", NoId)

\* registerHandler without its has-handler check: a second handler replaces the first
registerHandlerOverwriting(r, id, h) ==
    [threw |-> FALSE, err |-> "",
     reg |-> [r EXCEPT !.notifiedHandlers = @ \cup {id}, !.handlers = Set(@, id, h),
                       !.issued = Append(@, Note("$registerHandler", id))],
     disposable |-> Disposable("handler", id)]

\* registerHandler(commandId, handler, thisArg)
registerHandler(r, id, h) ==
    IF Has(r.handlers, id)
    THEN [threw |-> TRUE, err |-> "already has handler", reg |-> r,
          disposable |-> NoDisposable]
    ELSE [threw |-> FALSE, err |-> "",
          reg |-> [r EXCEPT !.notifiedHandlers = @ \cup {id},
                            !.issued = Append(@, Note("$registerHandler", id)),
                            !.handlers = Set(@, id, h)],
          disposable |-> Disposable("handler", id)]

\* registerCommand without its duplicate check
registerCommandUnchecked(r, id, h) ==
    LET r1 == [r EXCEPT !.commands = @ \cup {id}, !.notifiedCommands = @ \cup {id},
                        !.issued = Append(@, Note("$registerCommand", id))]
        rh == registerHandler(r1, id, h)
    IN  IF h = NoHandler
        THEN [threw |-> FALSE, err |-> "", reg |-> r1,
              disposable |-> Disposable("command", id)]
        ELSE IF rh.threw
             THEN [threw |-> TRUE, err |-> rh.err, reg |-> r1,
                   disposable |-> NoDisposable]
             ELSE [threw |-> FALSE, err |-> "", reg |-> rh.reg,
                   disposable |-> Disposable("composite", id)]

\* registerCommand recording the identifier and leaving the proxy untold
registerCommandNotifyingLater(r, id, h) ==
    IF id \in r.commands
    THEN [threw |-> TRUE, err |-> "already exist", reg |-> r,
          disposable |-> NoDisposable]
    ELSE LET r1 == [r EXCEPT !.commands = @ \cup {id}]
             rh == registerHandler(r1, id, h)
         IN  IF h = NoHandler
             THEN [threw |-> FALSE, err |-> "", reg |-> r1,
                   disposable |-> Disposable("command", id)]
             ELSE IF rh.threw
                  THEN [threw |-> TRUE, err |-> rh.err, reg |-> r1,
                        disposable |-> NoDisposable]
                  ELSE [threw |-> FALSE, err |-> "", reg |-> rh.reg,
                        disposable |-> Disposable("composite", id)]

\* registerCommand(command, handler?, thisArg?)
registerCommand(r, id, h) ==
    IF id \in r.commands
    THEN [threw |-> TRUE, err |-> "already exist", reg |-> r,
          disposable |-> NoDisposable]
    ELSE LET r1 == [r EXCEPT !.commands = @ \cup {id},
                             !.notifiedCommands = @ \cup {id},
                             !.issued = Append(@, Note("$registerCommand", id))]
             rh == registerHandler(r1, id, h)
         IN  IF h = NoHandler
             THEN [threw |-> FALSE, err |-> "", reg |-> r1,
                   disposable |-> Disposable("command", id)]
             ELSE IF rh.threw
                  THEN [threw |-> TRUE, err |-> rh.err, reg |-> r1,
                        disposable |-> NoDisposable]
                  ELSE [threw |-> FALSE, err |-> "", reg |-> rh.reg,
                        disposable |-> Disposable("composite", id)]

\* a handler disposal that tells the proxy and leaves the handler in the table
disposeHandlerKeepingEntry(r, id) ==
    [r EXCEPT !.notifiedHandlers = @ \ {id},
              !.issued = Append(@, Note("$unregisterHandler", id))]

\* the closure registerHandler returns
disposeHandler(r, id) ==
    [r EXCEPT !.handlers = Delete(@, id), !.notifiedHandlers = @ \ {id},
              !.issued = Append(@, Note("$unregisterHandler", id))]

\* a command disposal that frees the local set and tells the proxy nothing
disposeCommandSilently(r, id) == [r EXCEPT !.commands = @ \ {id}]

\* the closure registerCommand creates for the command itself
disposeCommand(r, id) ==
    [r EXCEPT !.commands = @ \ {id}, !.notifiedCommands = @ \ {id},
              !.issued = Append(@, Note("$unregisterCommand", id))]

\* the command's closure pushed before the handler's Disposable
disposeCommandFirst(r, d) ==
    CASE d.kind = "handler" -> disposeHandler(r, d.id)
      [] d.kind = "command" -> disposeCommand(r, d.id)
      [] d.kind = "composite" -> disposeHandler(disposeCommand(r, d.id), d.id)

\* Disposable.dispose() of a disposable still holding its function;
\* Disposable.from(...) runs its members in the order they were pushed
dispose(r, d) ==
    CASE d.kind = "handler" -> disposeHandler(r, d.id)
      [] d.kind = "command" -> disposeCommand(r, d.id)
      [] d.kind = "composite" -> disposeCommand(disposeHandler(r, d.id), d.id)

\* registerArgumentProcessor(processor)
registerArgumentProcessor(ps, p) == Append(ps, p)

----------------------------------------------------------------------------
(* CommandRegistryImpl: execution *)

\* ArgumentProcessor.processArgument(arg)
processArgument(p, x) ==
    CASE p = "inc" -> [ok |-> TRUE, val |-> x + 1]
      [] p = "dbl" -> [ok |-> x # 0, val |-> 2 * x]

\* reduceRight in place of reduce: the last processor registered runs first
RECURSIVE reduceProcessorsRight(_, _)
reduceProcessorsRight(ps, x) ==
    IF ps = <<>> THEN [ok |-> TRUE, val |-> x]
    ELSE LET r == processArgument(ps[Len(ps)], x)
         IN  IF r.ok THEN reduceProcessorsRight(SubSeq(ps, 1, Len(ps) - 1), r.val) ELSE r

\* this.argumentProcessors.reduce((r, p) => p.processArgument(r), arg)
RECURSIVE reduceProcessors(_, _)
reduceProcessors(ps, x) ==
    IF ps = <<>> THEN [ok |-> TRUE, val |-> x]
    ELSE LET r == processArgument(Head(ps), x)
         IN  IF r.ok THEN reduceProcessors(Tail(ps), r.val) ELSE r

\* args.map(arg => ...reduce...)
mapArguments(ps, args) ==
    LET rs == [i \in 1..Len(args) |-> reduceProcessors(ps, args[i])]
    IN  IF \E i \in 1..Len(args) : ~rs[i].ok
        THEN [ok |-> FALSE, list |-> <<>>]
        ELSE [ok |-> TRUE,
              list |-> IF args = <<>> THEN <<>>
                       ELSE [i \in 1..Len(args) |-> rs[i].val]]

\* What the other side and the build contribute to one execution:
\* mapped: whether the known-command table hands back an argument list;
\* spread: `...undefined` throws a TypeError, or (ES5 apply/concat) passes undefined;
\* remote: how the proxy's promise settles.
Envs == [mapped : {"list", "absent"}, spread : {"throws", "passes"},
         remote : {"resolved", "rejected"}]

\* KnownCommands.map(id, args, toDo): the id and arguments toDo receives
KnownCommandsMap(id, args, env) ==
    IF id = KnownId
    THEN [id |-> KnownMappedId, hasArgs |-> env.mapped = "list",
          args |-> IF args = <<>> THEN <<>>
                   ELSE [i \in 1..Len(args) |-> args[i] + 10]]
    ELSE [id |-> id, hasArgs |-> TRUE, args |-> args]

\* (mappedId, mappedArgs) => this.proxy.$executeCommand(mappedId, ...mappedArgs)
forward(m, env) ==
    IF m.hasArgs
    THEN Out("remote", NoHandler, m.id, m.args, env.remote,
             IF env.remote = "rejected" THEN "remote" ELSE "")
    ELSE IF env.spread = "throws"
         THEN Out("none", NoHandler, m.id, <<>>, "thrown", "TypeError")
         ELSE Out("remote", NoHandler, m.id, <<Undefined>>, env.remote,
                  IF env.remote = "rejected" THEN "remote" ELSE "")

\* an async function turns a throw of its body into a rejected promise
async(o) == IF o.delivery = "thrown" THEN [o EXCEPT !.delivery = "rejected"] ELSE o

RECURSIVE executeCommand(_, _, _)
RECURSIVE executeLocalCommand(_, _, _)
RECURSIVE executeSafeCommand(_, _)

\* a plugin's handler, applied to the processed arguments
callHandler(h, id, args) ==
    IF h = "hx"
    THEN Out("local", h, id, args, "thrown", "handler threw")
    ELSE IF h \in AsyncHandlers
         THEN Out("local", h, id, args, "pending", "")
         ELSE Out("local", h, id, args, "resolved", "")

\* an invocation settled by looking its handler up again: one whose
\* registration is gone is rejected as if it had never been dispatched
settleInvocationIfStillRegistered(inv, how) ==
    IF Has(handlers, inv.id) /\ handlers[inv.id] = inv.handler
    THEN [inv EXCEPT !.delivery = how,
                     !.err = IF how = "rejected" THEN "handler rejected" ELSE ""]
    ELSE [inv EXCEPT !.call = "none", !.delivery = "rejected", !.err = "doesn't exist"]

\* the promise executeLocalCommand returned follows the promise of the
\* handler it called: `const handler = this.handlers.get(id)` was read before
\* the call, and nothing reads the table again
settleInvocation(inv, how) ==
    [inv EXCEPT !.delivery = how,
                !.err = IF how = "rejected" THEN "handler rejected" ELSE ""]

\* CommandsConverter.executeSafeCommand(...args)
executeSafeCommand(args, env) ==
    LET key == IF args = <<>> THEN Undefined ELSE args[1]
    IN  IF ~Has(commandsMap, key)
        THEN Out("none", Trampoline, NoId, <<>>, "rejected", "command NOT FOUND")
        ELSE executeCommand(commandsMap[key].command, commandsMap[key].arguments, env)

\* private async executeLocalCommand(id, ...args)
executeLocalCommand(id, args, env) ==
    IF Has(handlers, id)
    THEN LET p == mapArguments(argumentProcessors, args)
         IN  IF ~p.ok
             THEN Out("none", handlers[id], id, <<>>, "rejected", "processor threw")
             ELSE IF handlers[id] = Trampoline
                  THEN async(executeSafeCommand(p.list, env))
                  ELSE async(callHandler(handlers[id], id, p.list))
    ELSE Out("none", NoHandler, id, <<>>, "rejected", "doesn't exist")

\* executeCommand choosing its branch by the registered-command set
executeCommandByRegisteredSet(id, args, env) ==
    IF id \in commands
    THEN [executeLocalCommand(id, args, env) EXCEPT !.route = "local"]
    ELSE [forward(KnownCommandsMap(id, args, env), env) EXCEPT !.route = "remote"]

\* executeCommand(id, ...args)
executeCommand(id, args, env) ==
    IF Has(handlers, id)
    THEN [executeLocalCommand(id, args, env) EXCEPT !.route = "local"]
    ELSE [forward(KnownCommandsMap(id, args, env), env) EXCEPT !.route = "remote"]

\* $executeCommand falling back to the proxy as executeCommand does
dollarExecuteCommandForwarding(id, args, env) == executeCommand(id, args, env)

\* $executeCommand(id, ...args)
dollarExecuteCommand(id, args, env) ==
    IF Has(handlers, id)
    THEN [executeLocalCommand(id, args, env) EXCEPT !.route = "local"]
    ELSE Out("none", NoHandler, id, <<>>, "rejected", "does not exist")

\* command[command.length - 1] in place of command[0]
charAtEnd(command) == IF command = <<>> THEN "undefined" ELSE command[Len(command)]

\* command[0]
charAt0(command) == IF command = <<>> THEN "undefined" ELSE command[1]

\* result.filter(command => command[0] !== '_')
RECURSIVE filterUnderscore(_)
filterUnderscore(list) ==
    IF list = <<>> THEN <<>>
    ELSE (IF charAt0(Head(list)) # "_" THEN <<Head(list)>> ELSE <<>>)
           \o filterUnderscore(Tail(list))

\* async getCommands(filterUnderscoreCommands = false), given how
\* `await this.proxy.$getCommands()` settles and the list it gives;
\* flag is "true", "false" or "omitted"
getCommands(flag, settles, list) ==
    LET filterUnderscoreCommands == IF flag = "omitted" THEN FALSE ELSE flag = "true"
    IN  IF settles = "rejected"
        THEN [delivery |-> "rejected", list |-> <<>>]
        ELSE [delivery |-> "resolved",
              list |-> IF filterUnderscoreCommands THEN filterUnderscore(list) ELSE list]

----------------------------------------------------------------------------
(* CommandsConverter *)

Converter == [commandsMap |-> commandsMap, handle |-> handle,
              isSafeCommandRegistered |-> isSafeCommandRegistered]

\* the condition without its length test: an empty argument list counts
carriesArgumentList(cmd) == cmd.command # NoId /\ cmd.hasArgs

\* command.command && command.arguments && command.arguments.length > 0
carriesArguments(cmd) ==
    cmd.command # NoId /\ cmd.hasArgs /\ Len(cmd.arguments) > 0

\* toSafeCommand with `this.handle` in place of `this.handle++`
toSafeCommandReusingHandle(r, c, cmd) ==
    LET reg == IF c.isSafeCommandRegistered
               THEN [threw |-> FALSE, err |-> "", reg |-> r]
               ELSE registerCommand(r, SafeCommandId, Trampoline)
    IN  IF reg.threw
        THEN [threw |-> TRUE, err |-> reg.err, reg |-> reg.reg, conv |-> c,
              ret |-> NoCommand, pushed |-> {}]
        ELSE IF carriesArguments(cmd)
             THEN [threw |-> FALSE, err |-> "", reg |-> reg.reg,
                   conv |-> [commandsMap |-> Set(c.commandsMap, c.handle, cmd),
                             handle |-> c.handle,
                             isSafeCommandRegistered |-> TRUE],
                   ret |-> [command |-> SafeCommandId, hasArgs |-> TRUE,
                            arguments |-> <<c.handle>>],
                   pushed |-> {c.handle}]
             ELSE [threw |-> FALSE, err |-> "", reg |-> reg.reg,
                   conv |-> [c EXCEPT !.isSafeCommandRegistered = TRUE],
                   ret |-> cmd, pushed |-> {}]

\* toSafeCommand registering the trampoline only when it allocates a handle
toSafeCommandRegisteringOnAllocation(r, c, cmd) ==
    LET reg == IF c.isSafeCommandRegistered \/ ~carriesArguments(cmd)
               THEN [threw |-> FALSE, err |-> "", reg |-> r]
               ELSE registerCommand(r, SafeCommandId, Trampoline)
    IN  IF reg.threw
        THEN [threw |-> TRUE, err |-> reg.err, reg |-> reg.reg, conv |-> c,
              ret |-> NoCommand, pushed |-> {}]
        ELSE IF carriesArguments(cmd)
             THEN [threw |-> FALSE, err |-> "", reg |-> reg.reg,
                   conv |-> [commandsMap |-> Set(c.commandsMap, c.handle, cmd),
                             handle |-> c.handle + 1,
                             isSafeCommandRegistered |-> TRUE],
                   ret |-> [command |-> SafeCommandId, hasArgs |-> TRUE,
                            arguments |-> <<c.handle>>],
                   pushed |-> {c.handle}]
             ELSE [threw |-> FALSE, err |-> "", reg |-> reg.reg, conv |-> c,
                   ret |-> cmd, pushed |-> {}]

\* toSafeCommand(command, disposables): the registry and converter after the
\* call, the command returned, and the handle pushed on the caller's scope
toSafeCommand(r, c, cmd) ==
    LET reg == IF c.isSafeCommandRegistered
               THEN [threw |-> FALSE, err |-> "", reg |-> r]
               ELSE registerCommand(r, SafeCommandId, Trampoline)
    IN  IF reg.threw
        THEN [threw |-> TRUE, err |-> reg.err, reg |-> reg.reg, conv |-> c,
              ret |-> NoCommand, pushed |-> {}]
        ELSE IF carriesArguments(cmd)
             THEN [threw |-> FALSE, err |-> "", reg |-> reg.reg,
                   conv |-> [commandsMap |-> Set(c.commandsMap, c.handle, cmd),
                             handle |-> c.handle + 1,
                             isSafeCommandRegistered |-> TRUE],
                   ret |-> [command |-> SafeCommandId, hasArgs |-> TRUE,
                            arguments |-> <<c.handle>>],
                   pushed |-> {c.handle}]
             ELSE [threw |-> FALSE, err |-> "", reg |-> reg.reg,
                   conv |-> [c EXCEPT !.isSafeCommandRegistered = TRUE],
                   ret |-> cmd, pushed |-> {}]

\* a scope whose disposal empties the whole handle table
disposeEveryScope(m, pushed) == [x \in {} |-> NoCommand]

\* DisposableCollection.dispose() of a caller's scope: every member runs
\* () => this.commandsMap.delete(id)
disposeScope(m, pushed) == [x \in DOMAIN m \ pushed |-> m[x]]

----------------------------------------------------------------------------
(* Actions: one per call *)

Call(op) == [NoLast EXCEPT !.op = op]
ThrewWith(err) == [Threw EXCEPT !.out = [NoOut EXCEPT !.err = err]]
Settled(o) ==
    [NoResult EXCEPT !.status = IF o.delivery = "thrown" THEN "threw" ELSE "promise",
                     !.out = o]

SetRegistry(r) ==
    /\ commands' = r.commands
    /\ handlers' = r.handlers
    /\ notifiedCommands' = r.notifiedCommands
    /\ notifiedHandlers' = r.notifiedHandlers

\* identifiers a plugin can name: its own, and the trampoline's once it is
\* registered (it is then listed by getCommands); before that the
\* Date.now() suffix keeps it from colliding
Registrable == PluginIds \cup (IF isSafeCommandRegistered THEN {SafeCommandId} ELSE {})

RegisterCommand(id, h) ==
    LET e == registerCommand(Registry, id, h)
    IN  /\ SetRegistry(e.reg)
        /\ released' = IF e.reg = Registry THEN released
                       ELSE [released EXCEPT ![id] = NoHandler]
        /\ disposables' = IF e.threw THEN disposables ELSE disposables \cup {e.disposable}
        /\ last' = [Call("registerCommand") EXCEPT !.id = id, !.h = h]
        /\ result' = [IF e.threw THEN ThrewWith(e.err) ELSE Returned
                         EXCEPT !.issued = e.reg.issued]
        /\ UNCHANGED <<argumentProcessors, converterVars, inflight, debugVars>>

RegisterHandler(id, h) ==
    LET e == registerHandler(Registry, id, h)
    IN  /\ SetRegistry(e.reg)
        /\ released' = IF e.reg = Registry THEN released
                       ELSE [released EXCEPT ![id] = NoHandler]
        /\ disposables' = IF e.threw THEN disposables ELSE disposables \cup {e.disposable}
        /\ last' = [Call("registerHandler") EXCEPT !.id = id, !.h = h]
        /\ result' = [IF e.threw THEN ThrewWith(e.err) ELSE Returned
                         EXCEPT !.issued = e.reg.issued]
        /\ UNCHANGED <<argumentProcessors, converterVars, inflight, debugVars>>

Dispose(d) ==
    /\ d \in disposables
    /\ SetRegistry(dispose(Registry, d))
    /\ released' = IF d.kind = "composite"
                   THEN [released EXCEPT ![d.id] = handlers[d.id]]
                   ELSE released
    /\ disposables' = disposables \ {d}
    /\ last' = [Call("dispose") EXCEPT !.id = d.id, !.scope = d.kind]
    /\ result' = [Returned EXCEPT !.issued = dispose(Registry, d).issued]
    /\ UNCHANGED <<argumentProcessors, converterVars, inflight, debugVars>>

RegisterArgumentProcessor(p) ==
    /\ Len(argumentProcessors) < MaxProcs
    /\ argumentProcessors' = registerArgumentProcessor(argumentProcessors, p)
    /\ last' = [Call("registerArgumentProcessor") EXCEPT !.h = p]
    /\ result' = Returned
    /\ UNCHANGED <<registryVars, converterVars, inflight, debugVars>>

\* a call whose handler returned an open promise stays in flight
Dispatched(o) ==
    /\ o.delivery = "pending" => Len(inflight) < MaxInflight
    /\ inflight' = IF o.delivery = "pending" THEN Append(inflight, o) ELSE inflight

ExecuteCommand(id, args, env) ==
    /\ Dispatched(executeCommand(id, args, env))
    /\ last' = [Call("executeCommand") EXCEPT !.id = id, !.args = args]
    /\ result' = Settled(executeCommand(id, args, env))
    /\ UNCHANGED <<registryVars, argumentProcessors, converterVars, debugVars>>

DollarExecuteCommand(id, args, env) ==
    /\ Dispatched(dollarExecuteCommand(id, args, env))
    /\ last' = [Call("$executeCommand") EXCEPT !.id = id, !.args = args]
    /\ result' = Settled(dollarExecuteCommand(id, args, env))
    /\ UNCHANGED <<registryVars, argumentProcessors, converterVars, debugVars>>

ToSafeCommand(cmd, s) ==
    LET e == toSafeCommand(Registry, Converter, cmd)
    IN  /\ carriesArguments(cmd) => handle < MaxHandle
        /\ SetRegistry(e.reg)
        /\ commandsMap' = e.conv.commandsMap
        /\ handle' = e.conv.handle
        /\ isSafeCommandRegistered' = e.conv.isSafeCommandRegistered
        /\ scopes' = [scopes EXCEPT ![s] = @ \cup e.pushed]
        /\ last' = [Call("toSafeCommand") EXCEPT !.cmd = cmd, !.scope = s]
        /\ result' = IF e.threw THEN [ThrewWith(e.err) EXCEPT !.issued = e.reg.issued]
                     ELSE [Returned EXCEPT !.ret = e.ret,
                             !.issued = e.reg.issued,
                             !.handle = IF e.pushed = {} THEN Undefined
                                        ELSE e.ret.arguments[1]]
        /\ UNCHANGED <<disposables, argumentProcessors, released, inflight, debugVars>>

DisposeScope(s) ==
    /\ commandsMap' = disposeScope(commandsMap, scopes[s])
    /\ scopes' = [scopes EXCEPT ![s] = {}]
    /\ last' = [Call("disposeScope") EXCEPT !.scope = s]
    /\ result' = Returned
    /\ UNCHANGED <<registryVars, argumentProcessors, handle, isSafeCommandRegistered, inflight, debugVars>>

GetCommands(flag, settles, list) ==
    /\ last' = [Call("getCommands") EXCEPT !.how = flag, !.list = list]
    /\ result' = [NoResult EXCEPT
                    !.status = "promise",
                    !.out = [NoOut EXCEPT !.call = "remote",
                               !.delivery = getCommands(flag, settles, list).delivery,
                               !.err = IF settles = "rejected" THEN "remote" ELSE ""],
                    !.list = getCommands(flag, settles, list).list]
    /\ UNCHANGED <<registryVars, argumentProcessors, converterVars, inflight, debugVars>>

\* the promise of the i-th invocation in flight settles
Settle(i, how) ==
    /\ i \in 1..Len(inflight)
    /\ inflight' = [k \in 1..(Len(inflight) - 1) |->
                       IF k < i THEN inflight[k] ELSE inflight[k + 1]]
    /\ last' = [Call("settle") EXCEPT !.id = inflight[i].id, !.args = inflight[i].args,
                                      !.h = inflight[i].handler, !.how = how]
    /\ result' = Settled(settleInvocation(inflight[i], how))
    /\ UNCHANGED <<registryVars, argumentProcessors, converterVars, debugVars>>

----------------------------------------------------------------------------
(* DebugTest.doTests: one action per task of the event loop.  A task runs   *)
(* the listener or the promise reaction it delivers and then doTests up to  *)
(* its next await.                                                         *)

\* Deferred.resolve(value): the first value stays
resolve(ds, i, t) == IF ds[i] = Pending THEN [ds EXCEPT ![i] = t] ELSE ds

\* doTests resumed with the thread t its Deferred resolved with:
\* `thread = ...; response = await debugSession.sendRequest(command,
\* { threadId: thread.raw.id })`, where thread.raw of undefined throws
Resume(command, t) ==
    /\ thread' = t
    /\ IF t = NoThread
       THEN pc' = "failed" /\ requests' = requests
       ELSE pc' = command /\ requests' = Append(requests, <<command, t>>)

\* the command runs doTests up to `await this.debugSessionManager.start(...)`
DoTests ==
    /\ pc = "idle"
    /\ pc' = "start"
    /\ last' = Call("doTests")
    /\ result' = NoResult
    /\ UNCHANGED <<deferredThread, deferreds, thread, stops, changes, requests, responses>>
    /\ UNCHANGED <<registryVars, argumentProcessors, converterVars, inflight>>

\* start(...) settles: without a session doTests throws; with one it creates
\* the first Deferred, subscribes to onDidChange and awaits the Deferred
StartSettles(session) ==
    /\ pc = "start"
    /\ IF session = "undefined"
       THEN pc' = "failed" /\ UNCHANGED <<deferredThread, deferreds>>
       ELSE pc' = "first" /\ deferredThread' = 1 /\ deferreds' = <<Pending>>
    /\ last' = [Call("start") EXCEPT !.how = session]
    /\ result' = NoResult
    /\ UNCHANGED <<thread, stops, changes, requests, responses>>
    /\ UNCHANGED <<registryVars, argumentProcessors, converterVars, inflight>>

\* the session emits a change event and the listener runs:
\* () => deferredThread.resolve(debugSession.threads.next().value).
\* The event for the first stop comes once the session is there, the event
\* for the second stop once 'next' has been sent, before or after its response.
DidChange(kind, t) ==
    /\ deferredThread > 0
    /\ IF kind = "stop"
       THEN /\ t \in Threads
            /\ stops < 2
            /\ stops = 1 => requests # <<>>
            /\ stops' = stops + 1
            /\ changes' = changes
       ELSE /\ changes < MaxChanges
            /\ changes' = changes + 1
            /\ stops' = stops
    /\ deferreds' = resolve(deferreds, deferredThread, t)
    /\ IF pc \in {"first", "second"} /\ deferreds[deferredThread] = Pending
       THEN Resume(IF pc = "first" THEN "next" ELSE "continue", t)
       ELSE UNCHANGED <<pc, thread, requests>>
    /\ last' = [Call("onDidChange") EXCEPT !.how = kind, !.h = t]
    /\ result' = NoResult
    /\ UNCHANGED <<deferredThread, responses>>
    /\ UNCHANGED <<registryVars, argumentProcessors, converterVars, inflight>>

\* the session answers the request doTests is awaiting: after 'next',
\* `deferredThread = new Deferred()` and the await of its promise; after
\* 'continue', the end of doTests
Response(ok) ==
    /\ pc \in {"next", "continue"}
    /\ responses' = responses + 1
    /\ IF ~ok
       THEN pc' = "failed" /\ UNCHANGED <<deferredThread, deferreds>>
       ELSE IF pc = "next"
            THEN /\ pc' = "second"
                 /\ deferredThread' = Len(deferreds) + 1
                 /\ deferreds' = Append(deferreds, Pending)
            ELSE pc' = "done" /\ UNCHANGED <<deferredThread, deferreds>>
    /\ last' = [Call("response") EXCEPT !.how = IF ok THEN "ok" ELSE "error", !.h = pc]
    /\ result' = NoResult
    /\ UNCHANGED <<thread, stops, changes, requests>>
    /\ UNCHANGED <<registryVars, argumentProcessors, converterVars, inflight>>

----------------------------------------------------------------------------
(* Specifications *)

Init ==
    /\ commands = {}
    /\ handlers = EmptyMap
    /\ argumentProcessors = <<>>
    /\ notifiedCommands = {}
    /\ notifiedHandlers = {}
    /\ disposables = {}
    /\ commandsMap = [x \in {} |-> NoCommand]
    /\ handle = 0
    /\ isSafeCommandRegistered = FALSE
    /\ scopes = [s \in Scopes |-> {}]
    /\ released = [id \in PluginIds \cup {SafeCommandId} |-> NoHandler]
    /\ inflight = <<>>
    /\ pc = "idle"
    /\ deferredThread = 0
    /\ deferreds = <<>>
    /\ thread = NoThread
    /\ stops = 0
    /\ changes = 0
    /\ requests = <<>>
    /\ responses = 0
    /\ last = NoLast
    /\ result = NoResult

\* Environments that can make a difference to the execution of id: the
\* other side and the build matter only when the call can reach the proxy
EnvsFor(op, id) ==
    IF (op = "executeCommand" /\ ~Has(handlers, id))
       \/ (Has(handlers, id) /\ handlers[id] = Trampoline)
    THEN {e \in Envs : (e.mapped = "list" => e.spread = "throws")
                       /\ (e.mapped = "absent" /\ e.spread = "throws"
                             => e.remote = "resolved")}
    ELSE {[mapped |-> "list", spread |-> "throws", remote |-> "resolved"]}

\* A plugin registering, disposing and executing commands under argument
\* processors; the converter is not used.
NextRegistry ==
    \/ \E id \in Registrable, h \in PluginHandlers \cup {NoHandler} : RegisterCommand(id, h)
    \/ \E id \in Registrable, h \in PluginHandlers : RegisterHandler(id, h)
    \/ \E d \in disposables : Dispose(d)
    \/ \E p \in Processors : RegisterArgumentProcessor(p)
    \/ \E id \in PluginIds \cup {KnownId}, args \in RegistryArgLists :
         \E env \in EnvsFor("executeCommand", id) : ExecuteCommand(id, args, env)
    \/ \E id \in PluginIds \cup {KnownId}, args \in RegistryArgLists :
         \E env \in EnvsFor("$executeCommand", id) : DollarExecuteCommand(id, args, env)

SpecRegistry == Init /\ [][NextRegistry]_vars

\* Commands converted for transport and executed through the trampoline,
\* while the plugin registers and disposes the command "a".
NextConverter ==
    \/ \E h \in {"h1", NoHandler} : RegisterCommand("a", h)
    \/ \E d \in disposables : Dispose(d)
    \/ RegisterArgumentProcessor("inc")
    \/ \E args \in HandleArgLists, env \in EnvsFor("executeCommand", SafeCommandId) :
         ExecuteCommand(SafeCommandId, args, env)
    \/ \E args \in HandleArgLists, env \in EnvsFor("$executeCommand", SafeCommandId) :
         DollarExecuteCommand(SafeCommandId, args, env)
    \/ \E cmd \in Convertible, s \in Scopes : ToSafeCommand(cmd, s)
    \/ \E s \in Scopes : DisposeScope(s)

SpecConverter == Init /\ [][NextConverter]_vars

\* Invocations of the command "a" whose handler returns a promise, settling
\* while the plugin registers and disposes the command and its handler.
NextInflight ==
    \/ \E h \in AsyncHandlers \cup {NoHandler} : RegisterCommand("a", h)
    \/ \E h \in AsyncHandlers : RegisterHandler("a", h)
    \/ \E d \in disposables : Dispose(d)
    \/ \E args \in {<<>>, <<1>>}, env \in EnvsFor("executeCommand", "a") :
         ExecuteCommand("a", args, env)
    \/ \E args \in {<<>>, <<1>>}, env \in EnvsFor("$executeCommand", "a") :
         DollarExecuteCommand("a", args, env)
    \/ \E i \in 1..MaxInflight, how \in {"resolved", "rejected"} : Settle(i, how)

SpecInflight == Init /\ [][NextInflight]_vars

\* The plugin asking for the list of commands.
NextGetCommands ==
    \E flag \in {"true", "false", "omitted"}, settles \in {"resolved", "rejected"},
       list \in RemoteLists : GetCommands(flag, settles, list)

SpecGetCommands == Init /\ [][NextGetCommands]_vars

\* The debug smoke test against a session that stops twice.
NextDebug ==
    \/ DoTests
    \/ \E session \in {"session", "undefined"} : StartSettles(session)
    \/ \E kind \in {"stop", "other"}, t \in Threads \cup {NoThread} : DidChange(kind, t)
    \/ \E ok \in BOOLEAN : Response(ok)

SpecDebug == Init /\ [][NextDebug]_vars

\* Every call with every input; the Next relations above are its
\* restrictions to fewer inputs.
Next ==
    \/ \E id \in Registrable, h \in PluginHandlers \cup AsyncHandlers \cup {NoHandler} :
         RegisterCommand(id, h)
    \/ \E id \in Registrable, h \in PluginHandlers \cup AsyncHandlers : RegisterHandler(id, h)
    \/ \E d \in disposables : Dispose(d)
    \/ \E p \in Processors : RegisterArgumentProcessor(p)
    \/ \E i \in 1..MaxInflight, how \in {"resolved", "rejected"} : Settle(i, how)
    \/ DoTests
    \/ \E session \in {"session", "undefined"} : StartSettles(session)
    \/ \E kind \in {"stop", "other"}, t \in Threads \cup {NoThread} : DidChange(kind, t)
    \/ \E ok \in BOOLEAN : Response(ok)
    \/ \E flag \in {"true", "false", "omitted"}, settles \in {"resolved", "rejected"},
          list \in RemoteLists : GetCommands(flag, settles, list)
    \/ \E id \in Ids, args \in RegistryArgLists \cup HandleArgLists :
         \E env \in EnvsFor("executeCommand", id) : ExecuteCommand(id, args, env)
    \/ \E id \in Ids, args \in RegistryArgLists \cup HandleArgLists :
         \E env \in EnvsFor("$executeCommand", id) : DollarExecuteCommand(id, args, env)
    \/ \E cmd \in Convertible, s \in Scopes : ToSafeCommand(cmd, s)
    \/ \E s \in Scopes : DisposeScope(s)

Spec == Init /\ [][Next]_vars

----------------------------------------------------------------------------
(* Properties *)

ExecOps == {"executeCommand", "$executeCommand"}

\* x after the first n of the processors ps, each given the result of the one
\* before it; ok is FALSE once one of them has thrown
RECURSIVE ThreadedThrough(_, _, _)
ThreadedThrough(ps, n, x) ==
    IF n = 0 THEN [ok |-> TRUE, val |-> x]
    ELSE LET before == ThreadedThrough(ps, n - 1, x)
         IN  IF before.ok THEN processArgument(ps[n], before.val) ELSE before

ProcessorThrows(ps, args) ==
    \E i \in 1..Len(args) : ~ThreadedThrough(ps, Len(ps), args[i]).ok

\* C1: registerCommand for an identifier that is in the registered-command
\* set throws the duplicate-registration error and changes nothing; a
\* registerCommand that returns leaves its identifier in the set, so a second
\* call with no disposal in between is such a call.
C1_DuplicateRegistrationFails ==
    [][last'.op = "registerCommand" =>
         /\ last'.id \in commands =>
              /\ result'.status = "threw"
              /\ result'.out.err = "already exist"
              /\ UNCHANGED registryVars
         /\ result'.status = "ok" => last'.id \in commands']_vars

C1_Witness ==
    /\ last.op = "registerCommand"
    /\ result.status = "threw"
    /\ result.out.err = "already exist"
    /\ \E d \in disposables : d.id = last.id /\ d.kind \in {"command", "composite"}

\* C2 as stated: registerHandler(id, h) throws when a handler is attached to
\* id and otherwise attaches h, and every execution of an identifier with a
\* plugin handler attached invokes that handler.
C2_Original ==
    [][/\ last'.op = "registerHandler" =>
            IF Has(handlers, last'.id)
            THEN result'.status = "threw" /\ handlers' = handlers
            ELSE /\ result'.status = "ok"
                 /\ Has(handlers', last'.id)
                 /\ handlers'[last'.id] = last'.h
       /\ (/\ last'.op \in ExecOps
           /\ Has(handlers', last'.id)
           /\ handlers'[last'.id] \in PluginHandlers) =>
            /\ result'.out.call = "local"
            /\ result'.out.handler = handlers'[last'.id]]_vars

\* C2 (amended): registerHandler(id, h) throws when a handler is attached to
\* id and otherwise attaches h; an execution of an identifier with a plugin
\* handler attached is dispatched to that handler, which is invoked unless an
\* argument processor throws on an argument, and then the call is rejected
\* without invoking it.
C2_HandlerRegistration ==
    [][/\ last'.op = "registerHandler" =>
            IF Has(handlers, last'.id)
            THEN result'.status = "threw" /\ handlers' = handlers
            ELSE /\ result'.status = "ok"
                 /\ Has(handlers', last'.id)
                 /\ handlers'[last'.id] = last'.h
       /\ (/\ last'.op \in ExecOps
           /\ Has(handlers', last'.id)
           /\ handlers'[last'.id] \in PluginHandlers) =>
            /\ result'.out.handler = handlers'[last'.id]
            /\ IF ProcessorThrows(argumentProcessors', last'.args)
               THEN result'.out.call = "none" /\ result'.out.delivery = "rejected"
               ELSE result'.out.call = "local"]_vars

C2_Witness ==
    /\ last.op = "$executeCommand"
    /\ Has(handlers, last.id)
    /\ result.out.call = "local"
    /\ result.out.handler = handlers[last.id]
    /\ Disposable("handler", last.id) \in disposables

\* C3: disposing the disposable of a successful registerCommand(c, h) leaves
\* c.id in neither the registered-command set nor the handler table; it stays
\* out of both until a registerCommand or registerHandler for c.id, and until
\* then no execution of c.id reaches h: $executeCommand is rejected with
\* not-found, executeCommand goes to the proxy and fails when the proxy rejects.
C3_DisposedCommandIsGone ==
    [][/\ (last'.op = "dispose" /\ last'.scope = "composite") =>
            /\ last'.id \notin commands'
            /\ ~Has(handlers', last'.id)
            /\ released'[last'.id] # NoHandler
       /\ \A id \in DOMAIN released :
            (released[id] # NoHandler /\ released'[id] = NoHandler) =>
                last'.op \in {"registerCommand", "registerHandler"} /\ last'.id = id
       /\ \A id \in DOMAIN released : released'[id] # NoHandler =>
            /\ id \notin commands'
            /\ ~Has(handlers', id)
            /\ (last'.op \in ExecOps /\ last'.id = id) =>
                 /\ result'.out.call # "local"
                 /\ result'.out.handler # released'[id]
                 /\ last'.op = "$executeCommand" =>
                      /\ result'.out.call = "none"
                      /\ result'.out.delivery = "rejected"
                      /\ result'.out.err = "does not exist"
                 /\ last'.op = "executeCommand" =>
                      /\ result'.out.call = "remote"
                      /\ result'.out.delivery = "rejected" => result'.out.err = "remote"]_vars

C3_Witness ==
    /\ last.op = "$executeCommand"
    /\ last.id \in DOMAIN released
    /\ released[last.id] # NoHandler
    /\ result.out.delivery = "rejected"
    /\ result.out.err = "does not exist"

\* the argument the trampoline receives when it is executed with args
TrampolineKey(args) ==
    IF args = <<>> THEN Undefined
    ELSE ThreadedThrough(argumentProcessors, Len(argumentProcessors), args[1]).val

\* C4 as stated: no $executeCommand, for any identifier, ends in a call of the
\* proxy's $executeCommand.
C4_Original ==
    last.op = "$executeCommand" => result.out.call # "remote"

\* C4 (amended): $executeCommand(id) never forwards id itself: with no local
\* handler for id it is rejected with not-found; the proxy's $executeCommand is
\* called only by the trampoline handler, for the command a live handle maps
\* to, when that command has no local handler.
C4_RemoteOriginatedStaysLocal ==
    last.op = "$executeCommand" =>
        /\ ~Has(handlers, last.id) =>
             /\ result.out.call = "none"
             /\ result.out.delivery = "rejected"
             /\ result.out.err = "does not exist"
        /\ result.out.call = "remote" =>
             /\ Has(handlers, last.id)
             /\ handlers[last.id] = Trampoline
             /\ Has(commandsMap, TrampolineKey(last.args))
             /\ ~Has(handlers, commandsMap[TrampolineKey(last.args)].command)
             /\ result.out.id \in
                  {commandsMap[TrampolineKey(last.args)].command, KnownMappedId}

C4_Witness ==
    /\ last.op = "$executeCommand"
    /\ last.id = SafeCommandId
    /\ result.out.call = "remote"

\* what was invoked, whatever became of it
Invocation(o) == <<o.call, o.handler, o.id, o.args>>

\* C5: executing the trampoline with a handle whose scope is live, through the
\* registry, makes the invocation that executing the command the handle was
\* issued for, with its arguments, makes.
C5_RoundTrip ==
    (/\ last.op = "executeCommand"
     /\ last.id = SafeCommandId
     /\ Len(last.args) = 1
     /\ Has(commandsMap, last.args[1])) =>
        \E env \in Envs :
            Invocation(result.out) =
                Invocation(executeCommand(commandsMap[last.args[1]].command,
                                          commandsMap[last.args[1]].arguments, env))

\* C6: executing the trampoline with a handle that was issued and whose scope
\* has since been disposed is rejected and invokes nothing.
C6_ReleasedHandleRejected ==
    (/\ last.op \in ExecOps
     /\ last.id = SafeCommandId
     /\ Len(last.args) = 1
     /\ last.args[1] \in 0..(handle - 1)
     /\ ~Has(commandsMap, last.args[1])) =>
        /\ result.out.call = "none"
        /\ result.out.delivery = "rejected"

\* C7: the handle a conversion issues is not mapped when it is issued, and a
\* conversion or a disposal leaves every handle that stays mapped on its command.
C7_HandlesNeverReused ==
    [][/\ (last'.op = "toSafeCommand" /\ result'.handle # Undefined) =>
            /\ ~Has(commandsMap, result'.handle)
            /\ Has(commandsMap', result'.handle)
            /\ commandsMap'[result'.handle] = last'.cmd
       /\ \A k \in DOMAIN commandsMap \cap DOMAIN commandsMap' :
            commandsMap'[k] = commandsMap[k]]_vars

C7_Witness ==
    /\ last.op = "toSafeCommand"
    /\ result.handle # Undefined
    /\ \E k \in DOMAIN commandsMap :
         k # result.handle /\ commandsMap[k] # commandsMap[result.handle]
    /\ \E s \in Scopes : scopes[s] = {}

\* C8: executeCommand(id, a1..an) with the plugin handler h attached to id
\* calls h with each argument threaded through the processors in the order
\* they were registered and settles as h does; it is rejected when a
\* processor throws.
C8_ProcessorsInRegistrationOrder ==
    (/\ last.op = "executeCommand"
     /\ Has(handlers, last.id)
     /\ handlers[last.id] \in PluginHandlers) =>
        IF ProcessorThrows(argumentProcessors, last.args)
        THEN /\ result.out.call = "none"
             /\ result.out.delivery = "rejected"
             /\ result.out.err = "processor threw"
        ELSE /\ result.out.call = "local"
             /\ result.out.handler = handlers[last.id]
             /\ Len(result.out.args) = Len(last.args)
             /\ \A i \in 1..Len(last.args) :
                  result.out.args[i] =
                    ThreadedThrough(argumentProcessors, Len(argumentProcessors),
                                    last.args[i]).val
             /\ result.out.delivery =
                  IF handlers[last.id] = "hx" THEN "rejected" ELSE "resolved"

C8_Witness ==
    /\ last.op = "executeCommand"
    /\ Has(handlers, last.id)
    /\ argumentProcessors = <<"inc", "dbl">>
    /\ last.args = <<0, 1>>
    /\ result.out.call = "local"
    /\ result.out.args = <<2, 4>>

\* C9: an identifier is in the registered-command set exactly when the latest
\* command notification issued for it is $registerCommand, and has a handler
\* exactly when the latest handler notification issued for it is $registerHandler.
C9_NotificationsMirrorLocalState ==
    /\ commands = notifiedCommands
    /\ DOMAIN handlers = notifiedHandlers

C9_Witness ==
    /\ last.op = "dispose"
    /\ last.scope = "composite"
    /\ last.id \notin notifiedCommands
    /\ last.id \notin notifiedHandlers
    /\ \E id \in notifiedCommands : Has(handlers, id)

C11_DispatchedInvocationSurvivesDisposal ==
    [][/\ last'.op = "dispose" => inflight' = inflight
       /\ last'.op = "settle" =>
            /\ Len(inflight') = Len(inflight) - 1
            /\ result'.out.call = "local"
            /\ result'.out.handler = last'.h
            /\ result'.out.id = last'.id
            /\ result'.out.args = last'.args
            /\ result'.out.delivery = last'.how
            /\ result'.out.err \in {"", "handler rejected"}
       /\ (last'.op \in ExecOps /\ ~Has(handlers, last'.id)) =>
            /\ result'.out.call # "local"
            /\ result'.out.handler = NoHandler
            /\ inflight' = inflight]_vars

C11_Witness ==
    /\ last.op = "settle"
    /\ last.h \in AsyncHandlers
    /\ ~Has(handlers, last.id)
    /\ last.id \notin commands
    /\ result.out.call = "local"
    /\ result.out.delivery = "resolved"
    /\ inflight # <<>>

\* C12: a registerCommand that returns has put the identifier in the local
\* set and has sent $registerCommand to the proxy as its first notification;
\* the call for an unregistered identifier (with no handler in the way)
\* returns within the call itself, as a plain value and not as a promise,
\* although nothing has come back from the proxy.
C12_RegisteredAndNotifiedOnReturn ==
    [][last'.op = "registerCommand" =>
         /\ result'.status = "ok" =>
              /\ last'.id \in commands'
              /\ last'.id \in notifiedCommands'
              /\ result'.issued # <<>>
              /\ result'.issued[1] = Note("$registerCommand", last'.id)
         /\ (last'.id \notin commands
               /\ (last'.h = NoHandler \/ ~Has(handlers, last'.id))) =>
              result'.status = "ok"
         /\ result'.status \in {"ok", "threw"}]_vars

C12_Witness ==
    /\ last.op = "registerCommand"
    /\ result.status = "ok"
    /\ last.id \in commands
    /\ last.id \in notifiedCommands
    /\ result.issued[1] = Note("$registerCommand", last.id)

\* C13: toSafeCommand on a command with no argument list or an empty one
\* returns a command with the same identifier and the same (absent or empty)
\* arguments, allocates no handle, and adds nothing to the handle table or
\* to the caller's disposal scope.
C13_ArgumentlessCommandPassesThrough ==
    [][(/\ last'.op = "toSafeCommand"
        /\ result'.status = "ok"
        /\ (~last'.cmd.hasArgs \/ last'.cmd.arguments = <<>>)) =>
         /\ result'.ret = last'.cmd
         /\ result'.handle = Undefined
         /\ handle' = handle
         /\ commandsMap' = commandsMap
         /\ scopes' = scopes]_vars

C13_Witness ==
    /\ last.op = "toSafeCommand"
    /\ result.status = "ok"
    /\ last.cmd.hasArgs
    /\ last.cmd.arguments = <<>>
    /\ result.ret = last.cmd
    /\ handle > 0
    /\ scopes[last.scope] # {}

\* C14: getCommands(true) resolves with exactly the identifiers of the
\* fetched list whose first character is not '_', in the order of the fetch;
\* getCommands(false) and getCommands() resolve with the fetched list as it is.
C14_UnderscoreFilter ==
    (last.op = "getCommands" /\ result.out.delivery = "resolved") =>
        IF last.how = "true"
        THEN result.list = SelectSeq(last.list, LAMBDA c : c = <<>> \/ c[1] # "_")
        ELSE result.list = last.list

C14_Witness ==
    /\ last.op = "getCommands"
    /\ last.how = "true"
    /\ result.out.delivery = "resolved"
    /\ Len(last.list) = 3
    /\ result.list = <<<<"a", "_">>, <<"a">>>>

\* the positions at which a call sent $registerCommand for the trampoline
TrampolineRegistrations(issued) ==
    {i \in 1..Len(issued) : issued[i] = Note("$registerCommand", SafeCommandId)}

\* C15: the trampoline is registered exactly once, by the first
\* toSafeCommand call whether or not its command carries arguments.  Step by
\* step: only a toSafeCommand step made while the trampoline is unregistered
\* registers it; every toSafeCommand step returns with the trampoline
\* registered, having sent its registration once if it was unregistered and
\* not at all otherwise; and once registered it stays registered.
C15_TrampolineRegisteredOnce ==
    [][/\ (\/ TrampolineRegistrations(result'.issued) # {}
           \/ (SafeCommandId \notin commands /\ SafeCommandId \in commands')
           \/ (~Has(handlers, SafeCommandId) /\ Has(handlers', SafeCommandId))) =>
            /\ last'.op = "toSafeCommand"
            /\ SafeCommandId \notin commands
            /\ ~Has(handlers, SafeCommandId)
       /\ last'.op = "toSafeCommand" =>
            /\ result'.status = "ok"
            /\ SafeCommandId \in commands'
            /\ Has(handlers', SafeCommandId)
            /\ handlers'[SafeCommandId] = Trampoline
            /\ Cardinality(TrampolineRegistrations(result'.issued))
                  = IF SafeCommandId \in commands THEN 0 ELSE 1
       /\ SafeCommandId \in commands =>
            /\ SafeCommandId \in commands'
            /\ Has(handlers', SafeCommandId)
            /\ handlers'[SafeCommandId] = Trampoline]_vars

C15_Witness ==
    /\ last.op = "toSafeCommand"
    /\ ~carriesArguments(last.cmd)
    /\ TrampolineRegistrations(result.issued) # {}
    /\ SafeCommandId \in commands
    /\ handle = 0

\* C16: each executeCommand call takes exactly one branch, chosen by the
\* handler table alone: the local handler when one is attached to the
\* identifier, registered or not, and otherwise the proxy through the
\* known-command mapping.  A call that took the local branch to a plugin's
\* handler makes no call to the proxy, and one that took the remote branch
\* invokes no handler.
C16_ExactlyOneTarget ==
    last.op = "executeCommand" =>
        /\ result.out.route \in {"local", "remote"}
        /\ result.out.route = "local" <=> Has(handlers, last.id)
        /\ (Has(handlers, last.id) /\ handlers[last.id] # Trampoline) =>
             /\ result.out.call # "remote"
             /\ result.out.handler = handlers[last.id]
             /\ result.out.id = last.id
        /\ result.out.route = "remote" =>
             /\ result.out.call # "local"
             /\ result.out.handler = NoHandler
             /\ result.out.id = IF last.id = KnownId THEN KnownMappedId ELSE last.id

C16_Witness ==
    /\ last.op = "executeCommand"
    /\ Has(handlers, last.id)
    /\ last.id \notin commands
    /\ result.out.route = "local"
    /\ result.out.call = "local"
    /\ result.out.delivery = "resolved"

\* C17: a handle's mapping is in the table from the toSafeCommand call that
\* allocated it until the scope given to that call is disposed.  A
\* conversion that allocates leaves its handle mapped to its command and
\* held by its scope; no step changes the command a handle maps to; a
\* handle leaves the table only in the disposal of the scope holding it, and
\* that disposal removes that scope's handles and no others.
C17_MappingLivesUntilItsScopeIsDisposed ==
    [][/\ (last'.op = "toSafeCommand" /\ result'.handle # Undefined) =>
            /\ ~Has(commandsMap, result'.handle)
            /\ Has(commandsMap', result'.handle)
            /\ commandsMap'[result'.handle] = last'.cmd
            /\ result'.handle \in scopes'[last'.scope]
       /\ \A k \in DOMAIN commandsMap :
            /\ Has(commandsMap', k) => commandsMap'[k] = commandsMap[k]
            /\ ~Has(commandsMap', k) =>
                 /\ last'.op = "disposeScope"
                 /\ k \in scopes[last'.scope]
       /\ last'.op = "disposeScope" =>
            DOMAIN commandsMap' = DOMAIN commandsMap \ scopes[last'.scope]]_vars

C17_Witness ==
    /\ last.op \in ExecOps
    /\ last.id = SafeCommandId
    /\ handle = MaxHandle
    /\ Cardinality(DOMAIN commandsMap) = 1
    /\ \E s \in Scopes : scopes[s] = DOMAIN commandsMap
    /\ \E s \in Scopes : scopes[s] = {}
    /\ last.args # <<>>
    /\ Has(commandsMap, last.args[1])

\* C18: a registerCommand call that throws leaves the registered-command set
\* and the handler table as they were and sends the proxy nothing, so every
\* registered identifier has had a disposable returned for it.
C18_FailedRegistrationChangesNothing ==
    [][(last'.op = "registerCommand" /\ result'.status = "threw") =>
         /\ commands' = commands
         /\ handlers' = handlers
         /\ notifiedCommands' = notifiedCommands
         /\ notifiedHandlers' = notifiedHandlers
         /\ result'.issued = <<>>]_vars

\* C19: a registerCommand(c, h) that returns has sent $registerCommand(c)
\* and then $registerHandler(c.id); disposing what it returned sends
\* $unregisterHandler(c.id) and then $unregisterCommand(c.id); and as long
\* as that disposable is held, the proxy has been told of both the command
\* and the handler, so the handler's notifications lie within the command's.
C19_HandlerNotifiedWithinCommandWindow ==
    [][/\ (/\ last'.op = "registerCommand"
           /\ result'.status = "ok"
           /\ last'.h # NoHandler) =>
            result'.issued = <<Note("$registerCommand", last'.id),
                               Note("$registerHandler", last'.id)>>
       /\ (last'.op = "dispose" /\ last'.scope = "composite") =>
            result'.issued = <<Note("$unregisterHandler", last'.id),
                               Note("$unregisterCommand", last'.id)>>
       /\ \A d \in disposables' :
            d.kind = "composite" =>
                d.id \in notifiedCommands' /\ d.id \in notifiedHandlers']_vars

C19_Witness ==
    /\ last.op = "dispose"
    /\ last.scope = "composite"
    /\ result.issued = <<Note("$unregisterHandler", last.id),
                         Note("$unregisterCommand", last.id)>>
    /\ last.id \notin notifiedCommands
    /\ last.id \notin notifiedHandlers

\* C20: once the session has emitted the change events of both stops and
\* has answered 'next', doTests has sent 'continue' (nothing it awaits is
\* still to come), whether the second event was delivered before or after
\* that answer.
C20_ContinueIsSent ==
    (stops = 2 /\ responses >= 1 /\ pc # "failed") =>
        \E i \in 1..Len(requests) : requests[i][1] = "continue"

====
